---- MODULE Spec2Model ----
(***************************************************************************)
(* Per-session interview engine of the career agent: the difficulty        *)
(* adapter (difficulty_adapter.py), the candidate profile manager          *)
(* (candidate_profile.py), the session orchestrator (agents/server.py),    *)
(* the transcript manager (agents/transcript.py), the scoring engine       *)
(* (scoring_engine.py), the cross-stage memory (cross_stage_memory.py)     *)
(* the prompt manager (prompt_manager.py) and the observability service    *)
(* (observability/service.py).  Each component has a specification of its  *)
(* own over the shared variables.                                          *)
(***************************************************************************)
EXTENDS Integers, Sequences, FiniteSets, TLC

VARIABLES
    stage_type,          \* Session.stage_type read at boot (server.py:130)
    difficulty_state,    \* DifficultyState owned by the session
    update_calls,        \* scores passed to DifficultyAdapter.update so far, in call order
    boot_pc,             \* position of create_initial_profile: "start", "llm" or "ready"
    candidate_profile,   \* CandidateProfile owned by the session
    tasks,               \* frames of the background calls, in creation order
    application_id,      \* TRUE iff the session belongs to an application (server.py:151)
    session_trace_id,    \* TRUE iff start_trace returned a trace id (server.py:260)
    session_traces,      \* TRUE iff the registry maps this session to its trace
    conversation_history,\* items delivered so far: [role, len]
    last_assistant_message, \* length of the last assistant text, 0 when empty
    transcript,          \* TranscriptManager.transcript
    turn_scores,         \* the session's list of per-turn scores
    sd_pc,               \* position of on_shutdown
    sd_log,              \* shutdown steps started so far, in order
    final_competencies,  \* on_shutdown's local: None or Some(scores)
    sd_values,           \* values of the statement on_shutdown is suspended on
    db_session,          \* the InterviewSession row
    last_save_count,     \* TranscriptManager.last_save_count
    save_task,           \* state of TranscriptManager._save_task
    saves,               \* frames of the TranscriptManager.save calls, in call order
    shadow_tasks,        \* frames of the run_shadow_analysis tasks, in creation order
    agent_instructions,  \* session.agent.instructions, as a sequence of blocks
    obs_service,         \* ObservabilityService: _initialized, _provider and its setup
    obs_calls,           \* calls made into the service, with what each returned
    score_call,          \* one call of ScoringEngine.score_answer: input, position, result
    insights_call,       \* one call of save_stage_insights: position, locals, result
    cross_stage_insights,\* InterviewApplication.cross_stage_insights: stage -> insights
    previous_call,       \* one call of get_previous_insights: input, position, result
    persona_cache,       \* PromptManager.persona_cache: persona key -> persona
    identity_calls       \* calls resolving an identity so far, with what each returned

sessionVars == <<application_id, session_trace_id, session_traces,
                 conversation_history, last_assistant_message, transcript,
                 turn_scores, sd_pc, sd_log, final_competencies, sd_values,
                 db_session>>

diffVars == <<stage_type, difficulty_state, update_calls>>
profileVars == <<boot_pc, candidate_profile, tasks>>

transcriptVars == <<last_save_count, save_task, saves>>

shadowVars == <<shadow_tasks, agent_instructions>>
obsVars == <<obs_service, obs_calls>>
scoreVars == <<score_call>>
memoryVars == <<insights_call, cross_stage_insights>>
recallVars == <<previous_call>>
promptVars == <<persona_cache, identity_calls>>

\* the variables of the components a specification leaves out
\* for each component, the variables of the other components
exceptTranscript ==
    <<shadowVars, obsVars, scoreVars, memoryVars,
      recallVars, promptVars>>
exceptShadow ==
    <<transcriptVars, obsVars, scoreVars, memoryVars,
      recallVars, promptVars>>
exceptObs ==
    <<transcriptVars, shadowVars, scoreVars, memoryVars,
      recallVars, promptVars>>
exceptScore ==
    <<transcriptVars, shadowVars, obsVars, memoryVars,
      recallVars, promptVars>>
exceptRecall ==
    <<transcriptVars, shadowVars, obsVars, scoreVars, memoryVars, promptVars>>
exceptPrompt ==
    <<transcriptVars, shadowVars, obsVars, scoreVars, memoryVars, recallVars>>
exceptMemory ==
    <<transcriptVars, shadowVars, obsVars, scoreVars,
      recallVars, promptVars>>

extVars ==
    <<transcriptVars, shadowVars, obsVars, scoreVars, memoryVars,
      recallVars, promptVars>>

vars == <<diffVars, profileVars, sessionVars, extVars>>

---------------------------------------------------------------------------
(* Bounds *)

\* number of DifficultyAdapter.update calls explored
MaxCalls == 6

\* scores an answer can receive (0-100 scale): low and high
Scores == {30, 95}

StageTypes == {"hr", "technical", "behavioral", "practice"}

\* number of update_after_turn calls explored
MaxUpdates == 2

\* lengths of a message text: empty, short, exactly 20, longer than 20
TextLens == {0, 5, 20, 25}

\* lengths of the resume text: absent or long enough to analyse
ResumeLens == {0, 60}

Skills == {"python"}
Topics == {"apis"}

\* depth values an extraction can carry; Missing stands for an assessment
\* without a "depth" key
Missing == -1
Depths == {4}

---------------------------------------------------------------------------
(* Sequence helpers *)

RECURSIVE Sum(_)
Sum(s) == IF s = <<>> THEN 0 ELSE Head(s) + Sum(Tail(s))

\* Python s[-n:] for n >= 1
LastN(s, n) == IF Len(s) <= n THEN s ELSE SubSeq(s, Len(s) - n + 1, Len(s))

\* Python s[:n]
FirstN(s, n) == IF Len(s) <= n THEN s ELSE SubSeq(s, 1, n)

Abs(x) == IF x < 0 THEN -x ELSE x

Range(s) == {s[i] : i \in DOMAIN s}

\* Python list(a_set): the elements in some order
SetToSeq(S) == CHOOSE q \in [1..Cardinality(S) -> S] : Range(q) = S

\* Python None and a present value
None == <<>>
Some(x) == <<x>>

---------------------------------------------------------------------------
(* The InterviewSession row and the session's variables before any event *)

\* the row as created by the API: pending, nothing stored by the agent yet
NewSessionRow ==
    [status |-> "pending", transcript |-> None, intelligence |-> None]

\* json.dumps of a transcript (transcript.py:50): a JSON array with, for
\* each message, an object of the members role and content, in that order
json_dumps(messages) ==
    [i \in DOMAIN messages |->
        <<<<"role", messages[i].role>>, <<"content", messages[i].len>>>>]

\* json.loads of a stored transcript: the list of its objects as dicts
json_loads(text) ==
    [i \in DOMAIN text |-> [role |-> text[i][1][2], len |-> text[i][2][2]]]

\* TranscriptManager.__init__: nothing saved, no saver task
NoTranscriptManager ==
    /\ last_save_count = 0
    /\ save_task = "none"
    /\ saves = <<>>

\* the instructions the agent is started with (server.py:539), and the
\* header run_shadow_analysis puts before an intervention (server.py:414)
base_instructions == <<"instructions">>
runtime_update_header == "[IMPORTANT RUNTIME UPDATE]"

\* no analysis started, the agent holds its base instructions
NoShadowMonitor ==
    /\ shadow_tasks = <<>>
    /\ agent_instructions = base_instructions

\* ObservabilityService.__init__ in a deployment without Opik configured
NoObservability ==
    /\ obs_service = [initialized |-> FALSE, provider |-> "none", setup |-> "disabled"]
    /\ obs_calls = <<>>

\* no call of score_answer made on its own
NoScoreCall == score_call = None

\* no call of save_stage_insights made on its own, an application without
\* insights
NoCrossStageMemory ==
    /\ insights_call = None
    /\ cross_stage_insights = <<>>

\* no call of get_previous_insights made on its own
NoRecall == previous_call = None

\* PromptManager.__init__: no persona loaded, no identity resolved
NoPromptManager ==
    /\ persona_cache = <<>>
    /\ identity_calls = <<>>

NoExt ==
    /\ NoRecall
    /\ NoPromptManager
    /\ NoTranscriptManager
    /\ NoShadowMonitor
    /\ NoObservability
    /\ NoScoreCall
    /\ NoCrossStageMemory

\* for each component, the other components before they are used
NoExceptTranscript ==
    /\ NoShadowMonitor /\ NoObservability /\ NoScoreCall /\ NoCrossStageMemory
    /\ NoRecall /\ NoPromptManager
NoExceptObs ==
    /\ NoTranscriptManager /\ NoShadowMonitor /\ NoScoreCall /\ NoCrossStageMemory
    /\ NoRecall /\ NoPromptManager
NoExceptScore ==
    /\ NoTranscriptManager /\ NoShadowMonitor /\ NoObservability /\ NoCrossStageMemory
    /\ NoRecall /\ NoPromptManager
NoExceptMemory ==
    /\ NoTranscriptManager /\ NoShadowMonitor /\ NoObservability /\ NoScoreCall
    /\ NoRecall /\ NoPromptManager

NoSessionState ==
    /\ application_id = FALSE
    /\ session_trace_id = FALSE
    /\ session_traces = FALSE
    /\ conversation_history = <<>>
    /\ last_assistant_message = 0
    /\ transcript = <<>>
    /\ turn_scores = <<>>
    /\ sd_pc = "idle"
    /\ sd_log = <<>>
    /\ final_competencies = None
    /\ sd_values = None
    /\ db_session = NewSessionRow

NoSession ==
    /\ NoExt
    /\ NoSessionState

---------------------------------------------------------------------------
(* difficulty_adapter.py *)

increase_threshold == 80
decrease_threshold == 50
min_turns_at_level == 2
window_size == 3

\* scores fed to DifficultyAdapter.update: low, at the decrease threshold, at
\* the increase threshold, and high
UpdateScores == Scores \cup {decrease_threshold, increase_threshold}

\* list(DifficultyLevel): the ordered ladder
levels == <<"foundational", "intermediate", "advanced", "expert">>

\* self.levels.index(current), 1-based
level_index(current) == CHOOSE i \in 1..Len(levels) : levels[i] = current

Min(a, b) == IF a <= b THEN a ELSE b
Max(a, b) == IF a >= b THEN a ELSE b

\* an increase that jumps to the top of the ladder
increase_level_to_top(current) == levels[Len(levels)]

increase_level(current) == levels[Min(level_index(current) + 1, Len(levels))]

\* a ladder on which nothing moves down
decrease_level_stays(current) == current

decrease_level(current) == levels[Max(level_index(current) - 1, 1)]

get_level_for_stage(st) == IF st = "practice" THEN "foundational" ELSE "intermediate"

create_initial_state(starting_level) ==
    [level |-> starting_level,
     turns_at_level |-> 0,
     last_change_turn |-> 0,
     change_reason |-> "Initial level",
     score_window |-> <<>>]

\* a window that keeps the oldest scores instead of the newest
trim_window_keeps_oldest(w) == IF Len(w) > window_size THEN FirstN(w, window_size) ELSE w

\* if len(state.score_window) > self.window_size: keep the last window_size
trim_window(w) == IF Len(w) > window_size THEN LastN(w, window_size) ELSE w

\* a hysteresis check that never blocks
stay_check_disabled(turns) == FALSE

\* if state.turns_at_level < self.min_turns_at_level: return state
below_min_turns(turns) == turns < min_turns_at_level

\* an update that rewrites the change metadata whenever a move was called
\* for, also when the level is already at that end of the ladder
update_resets_at_ends(state, new_score, current_turn) ==
    LET window == trim_window(Append(state.score_window, new_score))
        turns == state.turns_at_level + 1
        kept == [state EXCEPT !.score_window = window, !.turns_at_level = turns]
        total == Sum(window)
        n == Len(window)
        trend == window[n] - window[1]
        up == total >= increase_threshold * n /\ trend >= 0
        down == total <= decrease_threshold * n /\ trend <= 0
        new_level == IF up THEN increase_level(state.level)
                     ELSE IF down THEN decrease_level(state.level)
                     ELSE state.level
        reason == IF up THEN "High performance" ELSE "Struggling"
    IN  IF n < 2 THEN kept
        ELSE IF below_min_turns(turns) THEN kept
        ELSE IF up \/ down
             THEN [level |-> new_level,
                   turns_at_level |-> 0,
                   last_change_turn |-> current_turn,
                   change_reason |-> reason,
                   score_window |-> window]
             ELSE kept

update(state, new_score, current_turn) ==
    LET window == trim_window(Append(state.score_window, new_score))
        turns == state.turns_at_level + 1
        kept == [state EXCEPT !.score_window = window, !.turns_at_level = turns]
        total == Sum(window)
        n == Len(window)
        trend == window[n] - window[1]
        up == total >= increase_threshold * n /\ trend >= 0
        down == total <= decrease_threshold * n /\ trend <= 0
        new_level == IF up THEN increase_level(state.level)
                     ELSE IF down THEN decrease_level(state.level)
                     ELSE state.level
        reason == IF up THEN "High performance" ELSE "Struggling"
    IN  IF n < 2 THEN kept
        ELSE IF below_min_turns(turns) THEN kept
        ELSE IF new_level # state.level
             THEN [level |-> new_level,
                   turns_at_level |-> 0,
                   last_change_turn |-> current_turn,
                   change_reason |-> reason,
                   score_window |-> window]
             ELSE kept

---------------------------------------------------------------------------
(* candidate_profile.py *)

\* CandidateProfile(): the dataclass defaults
CandidateProfile ==
    [verified_skills |-> <<>>,
     topics_covered |-> {},
     questions_asked |-> <<>>,
     performance_trajectory |-> <<>>,
     current_turn |-> 0]

\* the value under "weakness_signals" in the extraction: an empty list, or
\* JSON null, which the loop of line 258 cannot iterate
WeaknessSignals == {"[]", "null"}

\* the merge raises after the skills loop: the except branch of lines
\* 285-287 returns the profile object as the loops left it
merge_fails(data) == data.weakness_signals = "null"

\* what the extraction LLM of update_after_turn can return: assessments for
\* some skills, the weakness signals, and a topic ("" when none)
Extractions ==
    UNION {[verified_skills : [S -> Depths \cup {Missing}],
            weakness_signals : WeaknessSignals,
            topic_covered : Topics \cup {""}]
             : S \in SUBSET Skills}

\* what the LLM of create_initial_profile can return
InitialExtractions == [claimed_skills : SUBSET Skills, initial_topics : SUBSET Topics]

pending(topic) == <<"pending", topic>>
covered(topic) == <<"covered", topic>>

\* the profile filled from the resume analysis (lines 176-195)
initial_profile_from(data) ==
    [CandidateProfile EXCEPT
       !.verified_skills =
           [s \in data.claimed_skills |->
               [depth |-> 0, verified_at_turn |-> 0, confidence |-> 3]],
       !.topics_covered = {pending(t) : t \in data.initial_topics}]

\* a step 1 that counts the turn only after the answer was analysed
record_turn_without_counter(profile, score) ==
    [profile EXCEPT
       !.performance_trajectory = Append(profile.performance_trajectory, score),
       !.questions_asked =
           Append(profile.questions_asked,
                  [turn |-> profile.current_turn + 1, score |-> score])]

\* step 1 of update_after_turn (lines 209-217): no suspension inside
record_turn(profile, score) ==
    [profile EXCEPT
       !.current_turn = profile.current_turn + 1,
       !.performance_trajectory = Append(profile.performance_trajectory, score),
       !.questions_asked =
           Append(profile.questions_asked,
                  [turn |-> profile.current_turn + 1, score |-> score])]

\* if not answer or len(answer.strip()) < 20
answer_too_short(answer_len) == answer_len < 20

existing_depth(profile, skill) ==
    IF skill \in DOMAIN profile.verified_skills
    THEN profile.verified_skills[skill].depth ELSE 0

\* assessment.get("depth", 3)
new_depth(d) == IF d = Missing THEN 3 ELSE d

\* an upgrade test that accepts any different depth
upgrades_on_any_change(nd, stored) == nd # stored

\* if new_depth > existing.get("depth", 0)
upgrades(nd, stored) == nd > stored

\* a confidence that ignores the score
skill_confidence_always_high(score) == 8

\* "confidence": 0.8 if score >= 70 else 0.5, in tenths
skill_confidence(score) == IF score >= 70 THEN 8 ELSE 5

\* the merge of an extraction into the profile (lines 243-280)
merge(profile, data, score) ==
    LET old == profile.verified_skills
        upgraded == {s \in DOMAIN data.verified_skills :
                        upgrades(new_depth(data.verified_skills[s]),
                                 existing_depth(profile, s))}
        skills == [s \in (DOMAIN old) \cup upgraded |->
                     IF s \in upgraded
                     THEN [depth |-> new_depth(data.verified_skills[s]),
                           verified_at_turn |-> profile.current_turn,
                           confidence |-> skill_confidence(score)]
                     ELSE old[s]]
    IN  [profile EXCEPT
           !.verified_skills = skills,
           !.topics_covered =
               IF data.topic_covered # "" /\ ~merge_fails(data)
               THEN profile.topics_covered \cup {covered(data.topic_covered)}
               ELSE profile.topics_covered]

---------------------------------------------------------------------------
(* The profile manager driven directly: create_initial_profile, then any    *)
(* number of update_after_turn calls, which may overlap at their LLM call   *)

InitProfile ==
    /\ stage_type = "hr"
    /\ difficulty_state = create_initial_state(get_level_for_stage(stage_type))
    /\ update_calls = <<>>
    /\ boot_pc = "start"
    /\ candidate_profile = CandidateProfile
    /\ tasks = <<>>
    /\ NoSession

\* create_initial_profile up to its LLM call
CreateInitialProfileCall ==
    /\ boot_pc = "start"
    /\ \E resume_len \in ResumeLens :
         boot_pc' = IF resume_len < 50 THEN "ready" ELSE "llm"
    /\ UNCHANGED <<extVars, candidate_profile, tasks, diffVars, sessionVars>>

\* the LLM call of create_initial_profile returns or raises
CreateInitialProfileReturn ==
    /\ boot_pc = "llm"
    /\ \/ \E data \in InitialExtractions :
            candidate_profile' = initial_profile_from(data)
       \/ UNCHANGED candidate_profile
    /\ boot_pc' = "ready"
    /\ UNCHANGED <<extVars, tasks, diffVars, sessionVars>>

\* update_after_turn up to its LLM call, or to its return for a short answer
UpdateAfterTurnCall ==
    /\ boot_pc = "ready"
    /\ Len(tasks) < MaxUpdates
    /\ \E answer_len \in TextLens, score \in Scores :
         /\ candidate_profile' = record_turn(candidate_profile, score)
         /\ tasks' = Append(tasks,
               [turn_num |-> Len(tasks) + 1,
                answer_len |-> answer_len,
                score |-> score,
                error |-> FALSE,
                pc |-> IF answer_too_short(answer_len) THEN "done" ELSE "profile_llm"])
    /\ UNCHANGED <<extVars, boot_pc, diffVars, sessionVars>>

\* the extraction LLM call returns and the merge runs, to its end or to the
\* statement that raises; or the call or the parsing raises
UpdateAfterTurnReturn ==
    /\ \E i \in DOMAIN tasks :
         /\ tasks[i].pc = "profile_llm"
         /\ \/ \E data \in Extractions :
                 /\ candidate_profile' = merge(candidate_profile, data, tasks[i].score)
                 /\ tasks' = [tasks EXCEPT ![i].pc = "done",
                                           ![i].error = merge_fails(data)]
            \/ /\ UNCHANGED candidate_profile
               /\ tasks' = [tasks EXCEPT ![i].pc = "done", ![i].error = TRUE]
    /\ UNCHANGED <<extVars, boot_pc, diffVars, sessionVars>>

NextProfile ==
    \/ CreateInitialProfileCall
    \/ CreateInitialProfileReturn
    \/ UpdateAfterTurnCall
    \/ UpdateAfterTurnReturn

SpecProfile == InitProfile /\ [][NextProfile]_vars

---------------------------------------------------------------------------
(* Claims about the profile manager *)

\* C4: current_turn equals the length of performance_trajectory in every
\* state, including while update_after_turn calls are suspended at the LLM.
TurnMatchesTrajectory ==
    candidate_profile.current_turn = Len(candidate_profile.performance_trajectory)

\* C4 witness: a short-answer call has returned and another call is
\* suspended at its LLM call.
TurnMatchesTrajectoryWitness ==
    /\ candidate_profile.current_turn >= 2
    /\ \E i \in DOMAIN tasks : tasks[i].pc = "done" /\ answer_too_short(tasks[i].answer_len)
    /\ \E i \in DOMAIN tasks : tasks[i].pc = "profile_llm"

\* C5: no step lowers the stored depth of a skill or removes a skill.
DepthNeverDecreases ==
    [][\A s \in DOMAIN candidate_profile.verified_skills :
          /\ s \in DOMAIN candidate_profile'.verified_skills
          /\ candidate_profile'.verified_skills[s].depth
                >= candidate_profile.verified_skills[s].depth]_vars

\* C5 witness: a skill verified at depth 4 has survived a later merge.
DepthNeverDecreasesWitness ==
    /\ \E s \in DOMAIN candidate_profile.verified_skills :
          /\ candidate_profile.verified_skills[s].depth = 4
          /\ candidate_profile.verified_skills[s].verified_at_turn
                < candidate_profile.current_turn
    /\ \A i \in DOMAIN tasks : tasks[i].pc = "done"
    /\ Len(tasks) >= 2

---------------------------------------------------------------------------
(* The adapter driven directly: any sequence of update calls *)

InitDifficulty ==
    /\ stage_type \in StageTypes
    /\ difficulty_state = create_initial_state(get_level_for_stage(stage_type))
    /\ update_calls = <<>>
    /\ boot_pc = "ready"
    /\ candidate_profile = CandidateProfile
    /\ tasks = <<>>
    /\ NoSession

DifficultyUpdate ==
    /\ Len(update_calls) < MaxCalls
    /\ \E new_score \in UpdateScores :
         /\ difficulty_state' = update(difficulty_state, new_score, Len(update_calls) + 1)
         /\ update_calls' = Append(update_calls, new_score)
    /\ UNCHANGED <<extVars, stage_type, profileVars, sessionVars>>

NextDifficulty == DifficultyUpdate

SpecDifficulty == InitDifficulty /\ [][NextDifficulty]_vars

---------------------------------------------------------------------------
(* Claims about the difficulty adapter *)

\* C3: the level changes in an update call only if turns_at_level, counting
\* that call, has reached min_turns_at_level, and every change moves exactly
\* one step on the ladder.
HysteresisSingleStep ==
    [][difficulty_state'.level # difficulty_state.level =>
         /\ difficulty_state.turns_at_level + 1 >= min_turns_at_level
         /\ Abs(level_index(difficulty_state'.level)
                - level_index(difficulty_state.level)) = 1]_vars

\* C3 witness: a level change has happened and a later call, made before the
\* minimum turns elapsed, was held back although the window is full of scores.
HysteresisWitness ==
    /\ difficulty_state.last_change_turn > 0
    /\ difficulty_state.turns_at_level = 1
    /\ Len(difficulty_state.score_window) = window_size

\* C6: after n update calls the window holds exactly the most recent
\* min(n, window_size) scores in arrival order.
WindowIsMostRecentScores ==
    /\ difficulty_state.score_window = LastN(update_calls, window_size)
    /\ Len(difficulty_state.score_window) = Min(Len(update_calls), window_size)
    /\ Len(difficulty_state.score_window) <= window_size

\* C6 witness: more calls than the window holds, across a level change.
WindowWitness ==
    /\ Len(update_calls) > window_size
    /\ difficulty_state.last_change_turn > 0
    /\ update_calls[1] # update_calls[Len(update_calls)]

\* C7 as stated: from intermediate, after 95 and 95 the level is still
\* intermediate, and the third 95 moves it to advanced with turns_at_level 0.
ScenarioS2AsStated ==
    stage_type # "practice" =>
      /\ update_calls = <<95, 95>> => difficulty_state.level = "intermediate"
      /\ update_calls = <<95, 95, 95>> =>
            /\ difficulty_state.level = "advanced"
            /\ difficulty_state.turns_at_level = 0

\* C7 amended: from intermediate, the first 95 leaves the level at
\* intermediate; the second 95 (turn 2) moves it to advanced and resets
\* turns_at_level to 0; after the third 95 the level is still advanced and
\* turns_at_level is 1.
ScenarioS2Amended ==
    stage_type # "practice" =>
      /\ update_calls = <<95>> =>
            /\ difficulty_state.level = "intermediate"
            /\ difficulty_state.turns_at_level = 1
      /\ update_calls = <<95, 95>> =>
            /\ difficulty_state.level = "advanced"
            /\ difficulty_state.turns_at_level = 0
            /\ difficulty_state.last_change_turn = 2
      /\ update_calls = <<95, 95, 95>> =>
            /\ difficulty_state.level = "advanced"
            /\ difficulty_state.turns_at_level = 1

\* C7 witness: the three scores of the scenario have been fed.
ScenarioS2Witness ==
    /\ stage_type # "practice"
    /\ update_calls = <<95, 95, 95>>

---------------------------------------------------------------------------
(* agents/server.py: one interview session.  Message texts are represented  *)
(* by their length; they carry no surrounding whitespace, so the length of  *)
(* a text and of its strip() agree.                                          *)
(*                                                                           *)
(* server.py passes a session_id keyword to create_initial_profile,         *)
(* score_answer and update_after_turn, whose signatures do not declare it.  *)
(* The calls are modelled as binding the parameters the callees declare, so *)
(* that the pipeline the session is written around is the one analysed.     *)

\* number of conversation items delivered to the session
MaxItems == 3

\* stage types the sessions are booted with
SessionStageTypes == {"technical"}

\* lengths of an assistant text: empty or not
AssistantLens == {0, 25}

\* AnswerScore.overall of the neutral score returned when scoring fails
NeutralScore == 50

\* a condition that does not ask for an assistant message
schedules_scoring_without_question(last_assistant_len, text_len) == text_len > 20

\* on_conversation_item_added: if last_assistant_message and len(text.strip()) > 20
schedules_scoring(last_assistant_len, text_len) ==
    last_assistant_len > 0 /\ text_len > 20

\* competency_evaluator.compute_competency_scores for scores of one
\* dimension: the mean (in tenths, rounded) and the sample size
compute_competency_scores(ts) ==
    LET total == Sum([i \in DOMAIN ts |-> ts[i].score])
        n == Len(ts)
    IN  [score_tenths |-> (total * 10 + n \div 2) \div n, sample_size |-> n]

\* CandidateProfile.to_dict: the fields, topics_covered as a list
to_dict(profile) ==
    [verified_skills |-> profile.verified_skills,
     topics_covered |-> SetToSeq(profile.topics_covered),
     questions_asked |-> profile.questions_asked,
     performance_trajectory |-> profile.performance_trajectory,
     current_turn |-> profile.current_turn]

\* a persist statement that leaves the competency scores out
persist_values_without_competencies(profile, scores, dstate, competencies) ==
    [candidate_profile |-> to_dict(profile),
     skill_assessments |-> scores,
     difficulty_level |-> dstate.level,
     competency_scores |-> None,
     topics_covered |-> SetToSeq(profile.topics_covered)]

\* the .values(...) of the persist statement of on_shutdown (lines 344-350)
persist_values(profile, scores, dstate, competencies) ==
    [candidate_profile |-> to_dict(profile),
     skill_assessments |-> scores,
     difficulty_level |-> dstate.level,
     competency_scores |-> competencies,
     topics_covered |-> SetToSeq(profile.topics_covered)]

\* the scores the scoring LLM returns in the sessions explored
SessionScores == Scores

\* the extractions the sessions' update_after_turn calls receive: every
\* skill verified at depth 4, no topic
SessionExtractions ==
    {d \in Extractions :
        /\ d.topic_covered = ""
        /\ d.weakness_signals = "[]"
        /\ DOMAIN d.verified_skills = Skills
        /\ \A s \in Skills : d.verified_skills[s] = 4}

\* number of scoring pipelines a session schedules
MaxPipelines == 2

\* number of scoring pipelines scheduled in a session that is then shut down
MaxShutdownPipelines == 1

Init ==
    /\ stage_type \in SessionStageTypes
    /\ difficulty_state = create_initial_state(get_level_for_stage(stage_type))
    /\ update_calls = <<>>
    /\ boot_pc = "ready"
    /\ candidate_profile = CandidateProfile   \* create_initial_profile without a resume
    /\ tasks = <<>>
    /\ application_id \in BOOLEAN
    /\ session_trace_id \in BOOLEAN
    /\ session_traces = session_trace_id
    /\ conversation_history = <<>>
    /\ last_assistant_message = 0
    /\ transcript = <<>>
    /\ turn_scores = <<>>
    /\ sd_pc = "idle"
    /\ sd_log = <<>>
    /\ final_competencies = None
    /\ sd_values = None
    /\ db_session = NewSessionRow
    /\ NoExt

\* on_conversation_item_added for one delivered item.  The task it creates
\* runs process_user_response up to the LLM call of score_answer: the answer
\* is longer than 20, so score_answer's branch for answers under 10 is not
\* taken, and nothing is written before that call.
\* ObservabilityService.get_trace_for_session for this session: TRUE iff the
\* registry returns a trace id, FALSE for None
get_trace_for_session == session_traces

\* the task of run_shadow_analysis up to its await: with fewer than two
\* items it returns at once, otherwise shadow_monitor.analyze builds its
\* prompt from the history and waits for the model
run_shadow_analysis(history_len) ==
    [turn |-> history_len,
     pc |-> IF history_len < 2 THEN "done" ELSE "llm",
     trace |-> IF history_len < 2 THEN FALSE ELSE get_trace_for_session,
     intervention |-> FALSE]

OnConversationItemAdded(role, text_len, max_pipelines) ==
    /\ sd_pc = "idle"
    /\ Len(conversation_history) < MaxItems
    /\ (role = "user" /\ schedules_scoring(last_assistant_message, text_len))
          => Len(tasks) < max_pipelines
    /\ transcript' = IF text_len > 0
                     THEN Append(transcript, [role |-> role, len |-> text_len])
                     ELSE transcript
    /\ conversation_history' =
           Append(conversation_history, [role |-> role, len |-> text_len])
    /\ last_assistant_message' =
           IF role = "assistant" THEN text_len ELSE last_assistant_message
    /\ tasks' =
           IF role = "user" /\ schedules_scoring(last_assistant_message, text_len)
           THEN Append(tasks,
                  [turn_num |-> Len(conversation_history) + 1,
                   question |-> last_assistant_message,
                   answer_len |-> text_len,
                   score |-> 0,
                   pc |-> "score_llm"])
           ELSE tasks
    /\ shadow_tasks' =
           IF role = "user"
           THEN Append(shadow_tasks,
                       run_shadow_analysis(Len(conversation_history) + 1))
           ELSE shadow_tasks
    /\ UNCHANGED <<exceptShadow, agent_instructions, diffVars, boot_pc,
                   candidate_profile, application_id,
                   session_trace_id, session_traces, turn_scores, sd_pc, sd_log,
                   final_competencies, sd_values, db_session>>

OnUserItem ==
    \E text_len \in TextLens : OnConversationItemAdded("user", text_len, MaxPipelines)

OnAssistantItem ==
    \E text_len \in AssistantLens : OnConversationItemAdded("assistant", text_len, MaxPipelines)

\* turn_scores.append({...}) and the call of record_metric (lines 441-463)
record_score(i, score) ==
    /\ turn_scores' = Append(turn_scores, [turn |-> tasks[i].turn_num, score |-> score])
    /\ tasks' = [tasks EXCEPT ![i].score = score, ![i].pc = "metric"]

\* the scoring LLM call returns a score, or fails and the neutral score is used
ScoreAnswerReturn ==
    /\ \E i \in DOMAIN tasks :
         /\ tasks[i].pc = "score_llm"
         /\ \E score \in SessionScores \cup {NeutralScore} : record_score(i, score)
    /\ UNCHANGED <<extVars, diffVars, boot_pc, candidate_profile, application_id,
                   session_trace_id, session_traces, conversation_history,
                   last_assistant_message, transcript, sd_pc, sd_log,
                   final_competencies, sd_values, db_session>>

\* difficulty_state = difficulty_adapter.update(...) (lines 475-479)
update_difficulty(i) ==
    /\ difficulty_state' = update(difficulty_state, tasks[i].score, tasks[i].turn_num)
    /\ update_calls' = Append(update_calls, tasks[i].score)

\* record_metric returns; update_after_turn runs up to its LLM call
RecordMetricReturn ==
    /\ \E i \in DOMAIN tasks :
         /\ tasks[i].pc = "metric"
         /\ candidate_profile' = record_turn(candidate_profile, tasks[i].score)
         /\ IF answer_too_short(tasks[i].answer_len)
            THEN /\ update_difficulty(i)
                 /\ tasks' = [tasks EXCEPT ![i].pc = "done"]
            ELSE /\ tasks' = [tasks EXCEPT ![i].pc = "profile_llm"]
                 /\ UNCHANGED <<difficulty_state, update_calls>>
    /\ UNCHANGED <<extVars, stage_type, boot_pc, sessionVars>>

\* the extraction LLM call returns (merge) or raises (profile as it is);
\* then the difficulty update runs and the pipeline ends
UpdateProfileReturn ==
    /\ \E i \in DOMAIN tasks :
         /\ tasks[i].pc = "profile_llm"
         /\ \/ \E data \in SessionExtractions :
                 candidate_profile' = merge(candidate_profile, data, tasks[i].score)
            \/ UNCHANGED candidate_profile
         /\ update_difficulty(i)
         /\ tasks' = [tasks EXCEPT ![i].pc = "done"]
    /\ UNCHANGED <<extVars, stage_type, boot_pc, sessionVars>>

---------------------------------------------------------------------------
(* on_shutdown (server.py:305-391) *)

\* the steps of on_shutdown in the order of the code
ShutdownSteps ==
    <<"final_save", "competency", "insights", "persist", "geval", "end_trace", "unregister">>

step_rank(step) == CHOOSE i \in DOMAIN ShutdownSteps : ShutdownSteps[i] = step

\* the persist statement is built from the session's variables and executed
enter_persist(log, competencies) ==
    /\ sd_log' = Append(log, "persist")
    /\ sd_values' = Some(persist_values(candidate_profile, turn_scores,
                                        difficulty_state, competencies))
    /\ sd_pc' = "persist"

\* if session_trace_id: await end_trace(...)
enter_end_trace(log) ==
    IF session_trace_id
    THEN sd_log' = Append(log, "end_trace") /\ sd_pc' = "end_trace"
    ELSE sd_log' = log /\ sd_pc' = "done"

\* on_shutdown is called: stop_and_save cancels the periodic saver and
\* save(final=True) is suspended at its database write
ShutdownStart ==
    /\ sd_pc = "idle"
    /\ sd_pc' = "final_save"
    /\ sd_log' = Append(sd_log, "final_save")
    /\ sd_values' = Some([transcript |-> json_dumps(transcript),
                           status |-> "completed"])
    /\ UNCHANGED <<extVars, diffVars, profileVars, application_id, session_trace_id,
                   session_traces, conversation_history, last_assistant_message,
                   transcript, turn_scores, final_competencies, db_session>>

\* the final save raises: nothing in on_shutdown catches it
FinalSaveFails ==
    /\ sd_pc = "final_save"
    /\ sd_pc' = "aborted"
    /\ sd_values' = None
    /\ UNCHANGED <<extVars, diffVars, profileVars, application_id, session_trace_id,
                   session_traces, conversation_history, last_assistant_message,
                   transcript, turn_scores, sd_log, final_competencies, db_session>>

\* the final save commits; the competency scores are computed (or the
\* computation raises and is logged); then insights or persist begins
FinalSaveReturn ==
    /\ sd_pc = "final_save"
    /\ db_session' = [db_session EXCEPT !.status = sd_values[1].status,
                                        !.transcript = Some(sd_values[1].transcript)]
    /\ \E computed \in (IF turn_scores # <<>>
                        THEN {Some(compute_competency_scores(turn_scores)), None}
                        ELSE {None}) :
         LET log1 == IF turn_scores # <<>> THEN Append(sd_log, "competency") ELSE sd_log
         IN  /\ final_competencies' = computed
             /\ IF application_id /\ conversation_history # <<>>
                THEN /\ sd_log' = Append(log1, "insights")
                     /\ sd_pc' = "insights"
                     /\ sd_values' = None
                ELSE enter_persist(log1, computed)
    /\ UNCHANGED <<extVars, diffVars, profileVars, application_id, session_trace_id,
                   session_traces, conversation_history, last_assistant_message,
                   transcript, turn_scores>>

\* save_stage_insights returns (it catches its own failures)
SaveStageInsightsReturn ==
    /\ sd_pc = "insights"
    /\ enter_persist(sd_log, final_competencies)
    /\ UNCHANGED <<extVars, diffVars, profileVars, application_id, session_trace_id,
                   session_traces, conversation_history, last_assistant_message,
                   transcript, turn_scores, final_competencies, db_session>>

\* the persist statement commits, or raises and is logged
PersistReturn ==
    /\ sd_pc = "persist"
    /\ \/ db_session' = [db_session EXCEPT !.intelligence = sd_values]
       \/ UNCHANGED db_session
    /\ sd_values' = None
    /\ IF conversation_history # <<>>
       THEN sd_log' = Append(sd_log, "geval") /\ sd_pc' = "geval"
       ELSE enter_end_trace(sd_log)
    /\ UNCHANGED <<extVars, diffVars, profileVars, application_id, session_trace_id,
                   session_traces, conversation_history, last_assistant_message,
                   transcript, turn_scores, final_competencies>>

\* evaluate_session_post_completion returns, or raises and is logged
GEvalReturn ==
    /\ sd_pc = "geval"
    /\ enter_end_trace(sd_log)
    /\ UNCHANGED <<extVars, diffVars, profileVars, application_id, session_trace_id,
                   session_traces, conversation_history, last_assistant_message,
                   transcript, turn_scores, final_competencies, sd_values, db_session>>

\* end_trace returns (it never raises); the session is unregistered
EndTraceReturn ==
    /\ sd_pc = "end_trace"
    /\ session_traces' = FALSE
    /\ sd_log' = Append(sd_log, "unregister")
    /\ sd_pc' = "done"
    /\ UNCHANGED <<extVars, diffVars, profileVars, application_id, session_trace_id,
                   conversation_history, last_assistant_message,
                   transcript, turn_scores, final_competencies, sd_values, db_session>>

\* the items delivered to a session that is shut down afterwards
OnUserItemBeforeShutdown ==
    \E text_len \in TextLens :
        OnConversationItemAdded("user", text_len, MaxShutdownPipelines)

Next ==
    \/ OnUserItem
    \/ OnAssistantItem
    \/ ScoreAnswerReturn
    \/ RecordMetricReturn
    \/ UpdateProfileReturn

\* the turn loop and its scoring pipelines
Spec == Init /\ [][Next]_vars

NextShutdown ==
    \/ OnUserItemBeforeShutdown
    \/ OnAssistantItem
    \/ ScoreAnswerReturn
    \/ RecordMetricReturn
    \/ UpdateProfileReturn
    \/ ShutdownStart
    \/ FinalSaveFails
    \/ FinalSaveReturn
    \/ SaveStageInsightsReturn
    \/ PersistReturn
    \/ GEvalReturn
    \/ EndTraceReturn

\* a session from its first item to the end of on_shutdown
SpecShutdown == Init /\ [][NextShutdown]_vars

---------------------------------------------------------------------------
(* Claims about the turn loop and its pipelines *)

\* how far a pipeline has got: each rank is one more of its writes done
pc_rank(pc) ==
    CASE pc = "score_llm" -> 0
      [] pc = "metric" -> 1
      [] pc = "profile_llm" -> 2
      [] pc = "done" -> 3

ShortAnswerAdvancesTurn ==
    [][(/\ Len(conversation_history') = Len(conversation_history) + 1
        /\ conversation_history'[Len(conversation_history')].role = "user"
        /\ conversation_history'[Len(conversation_history')].len \in 1..19
        /\ last_assistant_message > 0)
       => /\ turn_scores' = turn_scores
          /\ tasks' = tasks
          /\ candidate_profile'.current_turn = candidate_profile.current_turn + 1
          /\ Len(candidate_profile'.performance_trajectory)
                = Len(candidate_profile.performance_trajectory) + 1
          /\ Len(candidate_profile'.questions_asked)
                = Len(candidate_profile.questions_asked) + 1]_vars

---------------------------------------------------------------------------
(* Claims about shutdown *)

AfterCompetencyStep == sd_pc \in {"insights", "persist", "geval", "end_trace", "done"}

ShutdownStepsIndependent ==
    sd_pc \in {"done", "aborted"} =>
      /\ "persist" \in Range(sd_log)
      /\ conversation_history # <<>> => "geval" \in Range(sd_log)
      /\ (application_id /\ conversation_history # <<>>) => "insights" \in Range(sd_log)
      /\ session_trace_id =>
            /\ "end_trace" \in Range(sd_log)
            /\ "unregister" \in Range(sd_log)
            /\ ~session_traces

---------------------------------------------------------------------------
(* agents/transcript.py: the TranscriptManager driven by messages, by the   *)
(* periodic saver and by the two callers of stop_and_save                   *)

\* a session whose adapter and profile are idle: the state the components
\* below start from when they are driven on their own
EngineAtRest ==
    /\ stage_type = "technical"
    /\ difficulty_state = create_initial_state(get_level_for_stage(stage_type))
    /\ update_calls = <<>>
    /\ boot_pc = "ready"
    /\ candidate_profile = CandidateProfile
    /\ tasks = <<>>

\* number of messages delivered to add_message
MaxMessages == 2

\* number of save calls the periodic saver makes
MaxTicks == 2

\* lengths of a message content: empty or not
ContentLens == {0, 5}

\* the callers of stop_and_save: the task created by on_participant_disconnect
\* (server.py:534) and on_shutdown (server.py:306)
StopCallers == {"disconnect", "shutdown"}

called(caller) == \E i \in DOMAIN saves : saves[i].caller = caller

periodic_calls == Cardinality({i \in DOMAIN saves : saves[i].caller = "periodic"})

\* save() up to its first database await: the statement is built from the
\* transcript as it is now and sent to the database
save_call(caller, final) ==
    [caller |-> caller,
     final |-> final,
     status |-> IF final THEN "completed" ELSE "active",
     snapshot |-> json_dumps(transcript),
     pc |-> "execute"]

\* the transaction of a frame has updated the row and not yet ended: the
\* database makes an UPDATE of the same row by another transaction wait
holds_row(f) == f.pc \in {"commit", "commit_cancelled"}

row_free == \A i \in DOMAIN saves : ~holds_row(saves[i])

\* Task.cancel(): CancelledError is raised in the saver at the await it is
\* suspended on.  At db.execute the transaction is rolled back by the
\* session's context manager; at db.commit the commit request is already
\* with the database
cancel_frame(f) ==
    IF f.caller # "periodic" THEN f
    ELSE IF f.pc = "execute" THEN [f EXCEPT !.pc = "cancelled"]
    ELSE IF f.pc = "commit" THEN [f EXCEPT !.pc = "commit_cancelled"]
    ELSE f

cancel_task(state) ==
    IF state \in {"sleeping", "saving"} THEN "cancelled" ELSE state

InitTranscript ==
    /\ EngineAtRest
    /\ NoSessionState
    /\ NoExceptTranscript
    /\ last_save_count = 0
    /\ save_task = "sleeping"
    /\ saves = <<>>

AddMessage ==
    /\ ~called("shutdown")
    /\ Len(transcript) < MaxMessages
    /\ \E role \in {"user", "assistant"}, content \in ContentLens :
          transcript' = IF content > 0
                        THEN Append(transcript, [role |-> role, len |-> content])
                        ELSE transcript
    /\ UNCHANGED <<exceptTranscript, diffVars, profileVars, application_id, session_trace_id,
                   session_traces, conversation_history, last_assistant_message,
                   turn_scores, sd_pc, sd_log, final_competencies, sd_values,
                   db_session, transcriptVars>>

\* _periodic_save: the sleep returns and the loop body runs up to its await
PeriodicTick ==
    /\ save_task = "sleeping"
    /\ periodic_calls < MaxTicks
    /\ IF Len(transcript) > last_save_count
       THEN /\ saves' = Append(saves, save_call("periodic", FALSE))
            /\ save_task' = "saving"
       ELSE UNCHANGED <<saves, save_task>>
    /\ UNCHANGED <<exceptTranscript, diffVars, profileVars, sessionVars, last_save_count>>

\* await db.execute(stmt) returns
ExecuteReturn ==
    /\ \E i \in DOMAIN saves :
          /\ saves[i].pc = "execute"
          /\ row_free
          /\ saves' = [saves EXCEPT ![i].pc = "commit"]
    /\ UNCHANGED <<exceptTranscript, diffVars, profileVars, sessionVars, last_save_count, save_task>>

\* await db.commit() returns: the row holds the frame's values, and save()
\* runs to its end
CommitReturn ==
    /\ \E i \in DOMAIN saves :
          /\ saves[i].pc = "commit"
          /\ saves' = [saves EXCEPT ![i].pc = "done"]
          /\ db_session' = [db_session EXCEPT !.status = saves[i].status,
                                              !.transcript = Some(saves[i].snapshot)]
          /\ last_save_count' = Len(transcript)
          /\ save_task' = IF saves[i].caller = "periodic" THEN "sleeping"
                          ELSE save_task
    /\ UNCHANGED <<exceptTranscript, diffVars, profileVars, application_id, session_trace_id,
                   session_traces, conversation_history, last_assistant_message,
                   transcript, turn_scores, sd_pc, sd_log, final_competencies,
                   sd_values>>

\* db.execute or db.commit raises: nothing is written, and the exception
\* leaves save(); in the saver nothing catches it, so its task ends
WriteFails ==
    /\ \E i \in DOMAIN saves :
          /\ saves[i].pc \in {"execute", "commit"}
          /\ saves' = [saves EXCEPT ![i].pc = "failed"]
          /\ save_task' = IF saves[i].caller = "periodic" THEN "failed"
                          ELSE save_task
    /\ UNCHANGED <<exceptTranscript, diffVars, profileVars, sessionVars, last_save_count>>

\* the commit of a cancelled saver reaches the database, or does not
CancelledCommitResolves ==
    /\ \E i \in DOMAIN saves :
          /\ saves[i].pc = "commit_cancelled"
          /\ saves' = [saves EXCEPT ![i].pc = "cancelled"]
          /\ \/ db_session' = [db_session EXCEPT
                                  !.status = saves[i].status,
                                  !.transcript = Some(saves[i].snapshot)]
             \/ UNCHANGED db_session
    /\ UNCHANGED <<exceptTranscript, diffVars, profileVars, application_id, session_trace_id,
                   session_traces, conversation_history, last_assistant_message,
                   transcript, turn_scores, sd_pc, sd_log, final_competencies,
                   sd_values, last_save_count, save_task>>

\* stop_and_save up to the first await of save(final=True)
StopAndSave ==
    /\ \E caller \in StopCallers :
          /\ ~called(caller)
          /\ ~called("shutdown")
          /\ save_task' = cancel_task(save_task)
          /\ saves' = Append([i \in DOMAIN saves |-> cancel_frame(saves[i])],
                             save_call(caller, TRUE))
    /\ UNCHANGED <<exceptTranscript, diffVars, profileVars, sessionVars, last_save_count>>

NextTranscript ==
    \/ AddMessage
    \/ PeriodicTick
    \/ ExecuteReturn
    \/ CommitReturn
    \/ WriteFails
    \/ CancelledCommitResolves
    \/ StopAndSave

SpecTranscript == InitTranscript /\ [][NextTranscript]_vars

stop_and_save_returned(caller) ==
    \E i \in DOMAIN saves : saves[i].caller = caller /\ saves[i].pc = "done"

saves_settled ==
    \A i \in DOMAIN saves : saves[i].pc \in {"done", "cancelled"}

\* C11: the final save wins.  Once a final write is stored, no write with
\* status active follows it; and when on_shutdown's stop_and_save has
\* returned, every save call has ended and no write failed, the row is
\* completed and holds the full transcript.
FinalSaveWins ==
    /\ [][db_session.status = "completed" => db_session'.status = "completed"]_vars
    /\ [](stop_and_save_returned("shutdown") /\ saves_settled =>
              /\ db_session.status = "completed"
              /\ db_session.transcript = Some(json_dumps(transcript)))

\* C12: a failed write of the periodic saver leaves the saver running: it
\* sleeps again and can take its next tick.
SaverSurvivesWriteFailure ==
    [][(\E i \in DOMAIN saves :
            /\ saves[i].caller = "periodic"
            /\ saves[i].pc \in {"execute", "commit"}
            /\ saves'[i].pc = "failed")
        => save_task' = "sleeping"]_vars

---------------------------------------------------------------------------
(* agents/server.py: the turn loop with the Shadow Monitor.  The analysis   *)
(* of a user item runs as its own task; an intervention it returns is       *)
(* written into the running agent's instructions.  The agent object is      *)
(* taken to be reachable as session.agent (the hasattr test of line 418    *)
(* succeeds), and the monitor to be enabled.                                *)

\* number of scoring pipelines scheduled next to the analyses
MaxShadowPipelines == 1

\* an analysis whose intervention is not written anywhere
new_instructions_dropped(intervention) == base_instructions

\* an update appended to whatever the agent's instructions are now
new_instructions_accumulated(intervention) ==
    agent_instructions \o <<runtime_update_header, intervention>>

\* f"{instructions}\n\n[IMPORTANT RUNTIME UPDATE]: {intervention}": built from
\* the base instructions, not from the agent's current ones.  An intervention
\* is named by the user turn it was produced for.
new_instructions(intervention) ==
    base_instructions \o <<runtime_update_header, intervention>>

OnUserItemShadow ==
    \E text_len \in TextLens :
        OnConversationItemAdded("user", text_len, MaxShadowPipelines)

OnAssistantItemShadow ==
    \E text_len \in AssistantLens :
        OnConversationItemAdded("assistant", text_len, MaxShadowPipelines)

\* shadow_monitor.analyze returns to run_shadow_analysis: an intervention,
\* or None (status flowing, no intervention, or a swallowed failure)
ShadowAnalysisReturn ==
    /\ \E i \in DOMAIN shadow_tasks, intervention \in BOOLEAN :
          /\ shadow_tasks[i].pc = "llm"
          /\ shadow_tasks' = [shadow_tasks EXCEPT ![i].pc = "done",
                                                  ![i].intervention = intervention]
          /\ agent_instructions' =
                 IF intervention THEN new_instructions(shadow_tasks[i].turn)
                 ELSE agent_instructions
    /\ UNCHANGED <<exceptShadow, diffVars, profileVars, sessionVars>>

NextShadow ==
    \/ OnUserItemShadow
    \/ OnAssistantItemShadow
    \/ ShadowAnalysisReturn
    \/ ScoreAnswerReturn
    \/ RecordMetricReturn
    \/ UpdateProfileReturn

SpecShadow == Init /\ [][NextShadow]_vars

\* the assistant text a user item at position turn answers: the text of the
\* latest assistant item before it, 0 when there is none
RECURSIVE question_before(_)
question_before(turn) ==
    IF turn <= 1 THEN 0
    ELSE IF conversation_history[turn - 1].role = "assistant"
         THEN conversation_history[turn - 1].len
         ELSE question_before(turn - 1)

---------------------------------------------------------------------------
(* observability/service.py: the session -> trace registry over the life    *)
(* of a session (SpecShutdown)                                              *)

\* C14: the registry entry lives as long as the session's trace.  Until
\* on_shutdown unregisters, the registry holds the session exactly when
\* start_trace returned a trace id; every analysis task that looked the trace
\* up obtained the trace id when there is one and nothing otherwise; and once
\* on_shutdown has run, to its end or to the exception that ended it, the
\* registry holds no entry for the session.
RegistryLivesWithTrace ==
    /\ "unregister" \notin Range(sd_log) => session_traces = session_trace_id
    /\ \A i \in DOMAIN shadow_tasks :
          shadow_tasks[i].turn >= 2 => shadow_tasks[i].trace = session_trace_id
    /\ sd_pc \in {"done", "aborted"} => ~session_traces

---------------------------------------------------------------------------
(* observability/service.py and provider.py: the service called in any      *)
(* order, under each way its provider can be set up and can behave          *)

\* number of calls into the service
MaxObsCalls == 2

\* how the deployment sets the provider up: OPIK_ENABLED false; the import of
\* the Opik provider fails; its constructor raises; it constructs but reports
\* is_enabled False; it constructs and is enabled
Setups == {"disabled", "import_error", "init_raises", "not_enabled", "enabled"}

Methods == {"start_trace", "end_trace", "start_span", "end_span", "log_llm_call",
            "record_metric", "submit_evaluation", "flush", "shutdown"}

\* methods that return an id or None; the others return a bool
returns_id(method) == method \in {"start_trace", "start_span", "log_llm_call"}

\* end_trace / end_span return True at once when given no id
takes_id(method) == method \in {"end_trace", "end_span"}

\* ObservabilityService._ensure_initialized
ensure_initialized_keeps_none(svc) ==
    IF svc.initialized THEN svc
    ELSE [svc EXCEPT !.initialized = TRUE,
                     !.provider = IF svc.setup = "enabled" THEN "opik"
                                  ELSE IF svc.setup = "disabled" THEN "null"
                                  ELSE "none"]

ensure_initialized(svc) ==
    IF svc.initialized THEN svc
    ELSE [svc EXCEPT !.initialized = TRUE,
                     !.provider = IF svc.setup = "enabled" THEN "opik" ELSE "null"]

\* NullProvider's methods
null_provider(method) == IF returns_id(method) THEN "None" ELSE "True"

\* what a method of the Opik provider can do when called
opik_provider(method) ==
    IF returns_id(method) THEN {"id", "None", "raises"}
    ELSE {"True", "False", "raises"}

\* the except branch of each service method
on_exception(method) == IF returns_id(method) THEN "None" ELSE "False"

\* what the provider object does for a call; calling a method on a missing
\* provider raises
provider_call(provider, method) ==
    IF provider = "null" THEN {null_provider(method)}
    ELSE IF provider = "opik" THEN opik_provider(method)
    ELSE {"raises"}

InitObservability ==
    /\ EngineAtRest
    /\ NoSessionState
    /\ NoExceptObs
    /\ obs_service \in {[initialized |-> FALSE, provider |-> "none", setup |-> s] :
                           s \in Setups}
    /\ obs_calls = <<>>

\* one call of a service method, from its first line to its return
ObservabilityCall ==
    /\ Len(obs_calls) < MaxObsCalls
    /\ \E method \in Methods, has_id \in BOOLEAN :
          /\ ~takes_id(method) => has_id
          /\ IF takes_id(method) /\ ~has_id
             THEN /\ obs_calls' = Append(obs_calls,
                        [method |-> method, has_id |-> has_id,
                         provider |-> "not called", returned |-> "True"])
                  /\ UNCHANGED obs_service
             ELSE /\ obs_service' = ensure_initialized(obs_service)
                  /\ \E outcome \in provider_call(obs_service'.provider, method) :
                        obs_calls' = Append(obs_calls,
                            [method |-> method, has_id |-> has_id,
                             provider |-> outcome,
                             returned |-> IF outcome = "raises"
                                          THEN on_exception(method)
                                          ELSE outcome])
    /\ UNCHANGED <<exceptObs, diffVars, profileVars, sessionVars>>

NextObservability == ObservabilityCall

SpecObservability == InitObservability /\ [][NextObservability]_vars

\* C15: no call into the observability layer raises.  Every call returned a
\* value; with the NullProvider in place, or with the provider raising in
\* the call, the value is None, True or False; and once the service is
\* initialized its provider is the NullProvider unless Opik is configured
\* and its provider initialized.
ObservabilityNeverRaises ==
    /\ \A i \in DOMAIN obs_calls :
          /\ obs_calls[i].returned \in {"None", "True", "False", "id"}
          /\ (obs_service.provider # "opik" \/ obs_calls[i].provider = "raises")
                => obs_calls[i].returned \in {"None", "True", "False"}
    /\ obs_service.initialized =>
          /\ obs_service.setup # "enabled" => obs_service.provider = "null"
          /\ obs_service.provider \in {"null", "opik"}

\* C15 witness: a call in which the Opik provider raised and a call answered
\* by nothing but the early return, both returned to the caller.
ObservabilityNeverRaisesWitness ==
    /\ Len(obs_calls) = MaxObsCalls
    /\ \E i \in DOMAIN obs_calls : obs_calls[i].provider = "raises"
    /\ \E i \in DOMAIN obs_calls : obs_calls[i].provider = "not called"

---------------------------------------------------------------------------
(* scoring_engine.py: score_answer as a function of the answer and of what  *)
(* the scoring LLM does.  An answer is given by its length and the length   *)
(* of answer.strip(); confidence is in tenths.                              *)

\* longest answer given to score_answer
MaxAnswerLen == 11

\* answers: None (len -1), or a text with its length and stripped length
Answers ==
    {a \in [len : 0..MaxAnswerLen, stripped : 0..MaxAnswerLen] :
        a.stripped <= a.len}
    \cup {[len |-> -1, stripped |-> 0]}

\* what the scoring LLM call can do: raise, return text that is not a JSON
\* object of numbers, or return an object with some of the keys
LLMOutputs ==
    {[kind |-> "raises"], [kind |-> "unparsable"]} \cup
    {[kind |-> "json", overall |-> o, confidence |-> c] :
        o \in Scores \cup {Missing}, c \in {Missing, 9}}

\* a test that looks at the raw answer only
answer_too_brief_when_empty(answer) == answer.len <= 0

\* if not answer or len(answer.strip()) < 10
answer_too_brief(answer) == answer.len <= 0 \/ answer.stripped < 10

\* the fixed score of lines 125-136
BriefScore ==
    [overall |-> 20, relevance |-> 10, depth |-> 10, technical_accuracy |-> 50,
     communication |-> 30, dimension |-> "communication",
     feedback |-> "Answer was too brief or empty",
     follow_up_needed |-> TRUE, confidence |-> 9]

\* the score of the except branch (lines 186-197)
NeutralAnswerScore ==
    [overall |-> NeutralScore, relevance |-> NeutralScore, depth |-> NeutralScore,
     technical_accuracy |-> NeutralScore, communication |-> NeutralScore,
     dimension |-> "general", feedback |-> "Unable to score (system error)",
     follow_up_needed |-> FALSE, confidence |-> 0]

\* data.get(key, default)
get(value, default) == IF value = Missing THEN default ELSE value

\* a fallback that reports the default confidence
score_from_keeps_confidence(output) ==
    IF output.kind # "json" THEN [NeutralAnswerScore EXCEPT !.confidence = 7]
    ELSE [overall |-> get(output.overall, 50), relevance |-> 50, depth |-> 50,
          technical_accuracy |-> 50, communication |-> 50,
          dimension |-> "general", feedback |-> "",
          follow_up_needed |-> FALSE, confidence |-> get(output.confidence, 7)]

\* the score score_answer returns after its LLM call: the except branch for
\* a failed call or unparsable output, else the score built from the parsed
\* output (lines 170-181), where missing keys take their defaults
score_from(output) ==
    IF output.kind # "json" THEN NeutralAnswerScore
    ELSE [overall |-> get(output.overall, 50), relevance |-> 50, depth |-> 50,
          technical_accuracy |-> 50, communication |-> 50,
          dimension |-> "general", feedback |-> "",
          follow_up_needed |-> FALSE, confidence |-> get(output.confidence, 7)]

InitScoring ==
    /\ EngineAtRest
    /\ NoSessionState
    /\ NoExceptScore
    /\ score_call \in {Some([answer |-> a, pc |-> "called", llm_calls |-> 0,
                             llm |-> None, result |-> None]) : a \in Answers}

\* score_answer from its first line to its first await or its early return
ScoreAnswerCall ==
    /\ score_call # None
    /\ score_call[1].pc = "called"
    /\ score_call' =
          IF answer_too_brief(score_call[1].answer)
          THEN Some([score_call[1] EXCEPT !.pc = "returned",
                                          !.result = Some(BriefScore)])
          ELSE Some([score_call[1] EXCEPT !.pc = "llm", !.llm_calls = 1])
    /\ UNCHANGED <<exceptScore, diffVars, profileVars, sessionVars>>

\* the LLM call ends, and score_answer runs to its return
ScoreAnswerLLMReturn ==
    /\ score_call # None
    /\ score_call[1].pc = "llm"
    /\ \E output \in LLMOutputs :
          score_call' = Some([score_call[1] EXCEPT
                                 !.pc = "returned",
                                 !.llm = Some(output),
                                 !.result = Some(score_from(output))])
    /\ UNCHANGED <<exceptScore, diffVars, profileVars, sessionVars>>

NextScoring ==
    \/ ScoreAnswerCall
    \/ ScoreAnswerLLMReturn

SpecScoring == InitScoring /\ [][NextScoring]_vars

\* C16: score_answer never raises.  Every call that has ended returned a
\* score, and a call whose LLM raised or returned unparsable output returned
\* the neutral score: every dimension 50, confidence 0, no follow-up.
ScoreAnswerNeverRaises ==
    score_call # None =>
        LET c == score_call[1] IN
        /\ c.pc \in {"called", "llm", "returned"}
        /\ c.pc = "returned" => c.result # None
        /\ (c.pc = "returned" /\ c.llm # None /\ c.llm[1].kind # "json") =>
              /\ c.result[1].overall = 50
              /\ c.result[1].relevance = 50
              /\ c.result[1].depth = 50
              /\ c.result[1].technical_accuracy = 50
              /\ c.result[1].communication = 50
              /\ c.result[1].confidence = 0
              /\ c.result[1].follow_up_needed = FALSE

\* C16 witness: a call whose LLM raised has returned.
ScoreAnswerNeverRaisesWitness ==
    /\ score_call # None
    /\ score_call[1].pc = "returned"
    /\ score_call[1].llm = Some([kind |-> "raises"])
    /\ score_call[1].result = Some(NeutralAnswerScore)

\* C18: scenario S1.  For every answer that is None, empty, or of stripped
\* length below 10, score_answer returns the fixed brief score and the LLM
\* provider is not called.
BriefAnswerNotLLMScored ==
    score_call # None =>
        LET c == score_call[1] IN
        (c.answer.len <= 0 \/ c.answer.stripped < 10) =>
            /\ c.llm_calls = 0
            /\ c.pc # "llm"
            /\ c.pc = "returned" =>
                  /\ c.result[1].overall = 20
                  /\ c.result[1].relevance = 10
                  /\ c.result[1].depth = 10
                  /\ c.result[1].communication = 30
                  /\ c.result[1].technical_accuracy = 50
                  /\ c.result[1].dimension = "communication"
                  /\ c.result[1].follow_up_needed = TRUE
                  /\ c.result[1].confidence = 9

\* C18 witness: a whitespace-only answer of ten or more characters has been
\* answered without the LLM.
BriefAnswerNotLLMScoredWitness ==
    /\ score_call # None
    /\ score_call[1].answer.len >= 10
    /\ score_call[1].answer.stripped = 0
    /\ score_call[1].pc = "returned"
    /\ score_call[1].llm_calls = 0

---------------------------------------------------------------------------
(* Scenario S6 in the turn loop (Spec): a pipeline whose scoring LLM raised *)

\* the frame's score_answer took its except branch: SessionScores does not
\* hold the neutral score, so a frame carries it only then
scoring_failed(frame) == frame.pc # "score_llm" /\ frame.score = NeutralScore

\* the step in which update_after_turn's step 1 runs for frame i
records_turn(i) == tasks[i].pc = "metric" /\ tasks'[i].pc # "metric"

\* the step in which the extraction of frame i returns and the pipeline ends
ends_pipeline(i) == tasks[i].pc = "profile_llm" /\ tasks'[i].pc = "done"

appends_neutral_turn ==
    /\ candidate_profile'.performance_trajectory =
           Append(candidate_profile.performance_trajectory, NeutralScore)
    /\ candidate_profile'.current_turn = candidate_profile.current_turn + 1
    /\ candidate_profile'.questions_asked[candidate_profile'.current_turn].score
           = NeutralScore

---------------------------------------------------------------------------
(* update_after_turn ending in its except branch (SpecProfile) *)

\* C19: on error update_after_turn leaves the profile as step 1 left it.  In
\* the step in which a call returns through its except branch (the LLM call,
\* the parsing or the merge raised) no verified skill and no topic is added
\* or changed.
UpdateErrorLeavesProfile ==
    [][\A i \in DOMAIN tasks :
          (tasks[i].pc = "profile_llm" /\ tasks'[i].pc = "done" /\ tasks'[i].error)
             => /\ candidate_profile'.verified_skills = candidate_profile.verified_skills
                /\ candidate_profile'.topics_covered = candidate_profile.topics_covered
      ]_vars

---------------------------------------------------------------------------
(* cross_stage_memory.py: one call of save_stage_insights at the end of a   *)
(* stage.  Scores of insights are in tenths of a point, confidence in       *)
(* tenths.                                                                  *)

\* longest performance trajectory of the profile handed to the call
MaxTrajectory == 2

Trajectories == UNION {[1..n -> Scores] : n \in 0..MaxTrajectory}

\* the profile of a stage that recorded the given scores
profile_with(trajectory) ==
    [CandidateProfile EXCEPT
       !.current_turn = Len(trajectory),
       !.performance_trajectory = trajectory,
       !.questions_asked = [i \in 1..Len(trajectory) |->
                               [turn |-> i, score |-> trajectory[i]]]]

\* sum(trajectory) / len(trajectory), or 50.0 (lines 180-183)
mean_or_neutral(trajectory) ==
    IF trajectory = <<>> THEN NeutralScore * 10
    ELSE (Sum(trajectory) * 10) \div Len(trajectory)

\* performance_trajectory[-1] if performance_trajectory else 50 (line 135)
last_or_neutral(trajectory) ==
    IF trajectory = <<>> THEN NeutralScore * 10
    ELSE trajectory[Len(trajectory)] * 10

\* the StageInsights built by _extract_insights (lines 185-197)
extracted_insights(profile) ==
    [summary |-> "extracted",
     overall_score |-> mean_or_neutral(profile.performance_trajectory),
     confidence |-> 8]

\* the StageInsights of the except branch (lines 124-136)
minimal_insights(profile) ==
    [summary |-> "Stage completed (insights extraction failed)",
     overall_score |-> last_or_neutral(profile.performance_trajectory),
     confidence |-> 0]

\* insights of an earlier stage already stored for the application
EarlierInsights ==
    {<<>>, [s \in {"hr"} |-> [summary |-> "extracted", overall_score |-> 950,
                              confidence |-> 8]]}

InitInsights ==
    /\ stage_type = "technical"
    /\ difficulty_state = create_initial_state(get_level_for_stage(stage_type))
    /\ update_calls = <<>>
    /\ boot_pc = "ready"
    /\ candidate_profile \in {profile_with(t) : t \in Trajectories}
    /\ tasks = <<>>
    /\ NoSessionState
    /\ NoExceptMemory
    /\ insights_call = None
    /\ cross_stage_insights \in EarlierInsights

\* save_stage_insights up to the LLM call of _extract_insights
SaveStageInsightsCall ==
    /\ insights_call = None
    /\ insights_call' = Some([call_no |-> 1, pc |-> "extract_llm",
                              insights |-> None, current |-> None,
                              failed |-> FALSE, result |-> None])
    /\ UNCHANGED <<exceptMemory, diffVars, profileVars, sessionVars,
                   cross_stage_insights>>

\* the LLM call returns parsable output: _extract_insights returns and
\* _persist_insights runs up to its select
ExtractInsightsReturn ==
    /\ insights_call # None
    /\ insights_call[1].pc = "extract_llm"
    /\ insights_call' =
          Some([insights_call[1] EXCEPT
                   !.pc = "select",
                   !.insights = Some(extracted_insights(candidate_profile))])
    /\ UNCHANGED <<exceptMemory, diffVars, profileVars, sessionVars,
                   cross_stage_insights>>

\* the select returns the stored insights (or {}), the stage's entry is set
\* in that copy, and the update is sent
PersistSelectReturn ==
    /\ insights_call # None
    /\ insights_call[1].pc = "select"
    /\ insights_call' =
          Some([insights_call[1] EXCEPT
                   !.pc = "update",
                   !.current = Some([s \in DOMAIN cross_stage_insights \cup {stage_type} |->
                                        IF s = stage_type
                                        THEN insights_call[1].insights[1]
                                        ELSE cross_stage_insights[s]])])
    /\ UNCHANGED <<exceptMemory, diffVars, profileVars, sessionVars,
                   cross_stage_insights>>

\* the update returns and the commit is sent
PersistUpdateReturn ==
    /\ insights_call # None
    /\ insights_call[1].pc = "update"
    /\ insights_call' = Some([insights_call[1] EXCEPT !.pc = "commit"])
    /\ UNCHANGED <<exceptMemory, diffVars, profileVars, sessionVars,
                   cross_stage_insights>>

\* the commit returns: the row holds the new map, and save_stage_insights
\* returns the extracted insights
PersistCommitReturn ==
    /\ insights_call # None
    /\ insights_call[1].pc = "commit"
    /\ cross_stage_insights' = insights_call[1].current[1]
    /\ insights_call' = Some([insights_call[1] EXCEPT
                                 !.pc = "returned",
                                 !.result = insights_call[1].insights])
    /\ UNCHANGED <<exceptMemory, diffVars, profileVars, sessionVars>>

\* the LLM call, the parsing of its output or a database statement raises:
\* the except branch of lines 121-137 returns the minimal insights
SaveStageInsightsFails ==
    /\ insights_call # None
    /\ insights_call[1].pc \in {"extract_llm", "select", "update", "commit"}
    /\ insights_call' = Some([insights_call[1] EXCEPT
                                 !.pc = "returned",
                                 !.failed = TRUE,
                                 !.result = Some(minimal_insights(candidate_profile))])
    /\ UNCHANGED <<exceptMemory, diffVars, profileVars, sessionVars,
                   cross_stage_insights>>

NextInsights ==
    \/ SaveStageInsightsCall
    \/ ExtractInsightsReturn
    \/ PersistSelectReturn
    \/ PersistUpdateReturn
    \/ PersistCommitReturn
    \/ SaveStageInsightsFails

SpecInsights == InitInsights /\ [][NextInsights]_vars

\* C20: when extraction or persistence failed, the call has returned (it
\* does not raise) and the application holds minimal insights for the
\* stage: the failure summary, the mean of the performance trajectory (50
\* when it is empty) as overall_score, and confidence 0.
MinimalInsightsWritten ==
    (insights_call # None /\ insights_call[1].failed) =>
        /\ insights_call[1].pc = "returned"
        /\ stage_type \in DOMAIN cross_stage_insights
        /\ cross_stage_insights[stage_type].summary =
               "Stage completed (insights extraction failed)"
        /\ cross_stage_insights[stage_type].overall_score =
               mean_or_neutral(candidate_profile.performance_trajectory)
        /\ cross_stage_insights[stage_type].confidence = 0

---------------------------------------------------------------------------
(* cross_stage_memory.py: one call of get_previous_insights *)

\* stage_order (line 241)
stage_order == <<"hr", "technical", "behavioral">>

\* stage_order.index(stage), counted from 1; 0 where Python raises ValueError
stage_index(stage) ==
    IF stage \in Range(stage_order)
    THEN CHOOSE i \in DOMAIN stage_order : stage_order[i] = stage
    ELSE 0

\* the stages whose insights the call looks for (lines 243-248)
previous_stages(current_stage) ==
    IF stage_index(current_stage) > 0
    THEN FirstN(stage_order, stage_index(current_stage) - 1)
    ELSE stage_order

\* an entry of the stored map: written by to_dict, or by an older version
\* that stored no overall_score and no confidence
StoredEntries ==
    {[summary |-> "extracted", overall_score |-> 950, confidence |-> 8],
     [summary |-> "extracted", overall_score |-> Missing, confidence |-> Missing]}

\* the maps Application.cross_stage_insights can hold
StoredMaps == UNION {[K -> StoredEntries] : K \in SUBSET StageTypes}

\* the StageInsights built from a stored entry (lines 261-273)
stage_insights_from(data) ==
    [summary |-> data.summary,
     overall_score |-> get(data.overall_score, NeutralScore * 10),
     confidence |-> get(data.confidence, 0)]

\* the loop of lines 258-273
filtered(all_insights, stages) ==
    [s \in Range(stages) \cap DOMAIN all_insights |->
        stage_insights_from(all_insights[s])]

InitRecall ==
    /\ stage_type = "technical"
    /\ difficulty_state = create_initial_state(get_level_for_stage(stage_type))
    /\ update_calls = <<>>
    /\ boot_pc = "ready"
    /\ candidate_profile = CandidateProfile
    /\ tasks = <<>>
    /\ NoSessionState
    /\ NoExceptMemory
    /\ insights_call = None
    /\ cross_stage_insights \in StoredMaps

\* get_previous_insights up to its select
GetPreviousInsightsCall(current_stage) ==
    /\ previous_call = None
    /\ previous_call' = Some([current_stage |-> current_stage,
                              previous_stages |-> previous_stages(current_stage),
                              pc |-> "select", failed |-> FALSE,
                              result |-> None])
    /\ UNCHANGED <<exceptRecall, diffVars, profileVars, sessionVars>>

\* the select returns the stored map (or {}), and the call returns the
\* entries of the stages it looks for
PreviousSelectReturn ==
    /\ previous_call # None
    /\ previous_call[1].pc = "select"
    /\ previous_call' =
          Some([previous_call[1] EXCEPT
                   !.pc = "returned",
                   !.result = Some(filtered(cross_stage_insights,
                                            previous_call[1].previous_stages))])
    /\ UNCHANGED <<exceptRecall, diffVars, profileVars, sessionVars>>

\* the session cannot be opened or the select raises: the except branch of
\* lines 277-279 returns {}
PreviousReadFails ==
    /\ previous_call # None
    /\ previous_call[1].pc = "select"
    /\ previous_call' = Some([previous_call[1] EXCEPT
                                 !.pc = "returned",
                                 !.failed = TRUE,
                                 !.result = Some(<<>>)])
    /\ UNCHANGED <<exceptRecall, diffVars, profileVars, sessionVars>>

NextRecall ==
    \/ \E current_stage \in StageTypes : GetPreviousInsightsCall(current_stage)
    \/ PreviousSelectReturn
    \/ PreviousReadFails

SpecRecall == InitRecall /\ [][NextRecall]_vars

\* stage s comes before stage t in stage_order
precedes(s, t) ==
    /\ stage_index(s) > 0
    /\ stage_index(t) > 0
    /\ stage_index(s) < stage_index(t)

---------------------------------------------------------------------------
(* The transcript against the delivered items (SpecShutdown) *)

\* the items delivered to on_conversation_item_added so far, as the
\* {role, content} messages add_message is called with
delivered_items == conversation_history

\* C22: the transcript holds every delivered conversation item exactly once,
\* in delivery order, and once the final save of on_shutdown is stored the
\* persisted JSON deserializes to that same sequence of {role, content}
\* items.
TranscriptIsDeliveredItems ==
    /\ transcript = delivered_items
    /\ AfterCompetencyStep =>
          /\ db_session.transcript # None
          /\ json_loads(db_session.transcript[1]) = delivered_items

---------------------------------------------------------------------------
(* prompt_manager.py: identity and voice resolution.  A name is written as  *)
(* <<persona, entry, language>> and a voice id likewise, so that what a     *)
(* call returned can be traced to the identities entry it came from.        *)

\* number of resolving calls explored
MaxIdentityCalls == 2

\* STAGE_PERSONA_MAP.get(stage_type, "practice_interviewer") (lines 25-30)
persona_key(stage) ==
    CASE stage = "hr" -> "hr_recruiter"
      [] stage = "technical" -> "tech_lead"
      [] stage = "behavioral" -> "behavioral_manager"
      [] OTHER -> "practice_interviewer"

Languages == {"en", "vi"}

\* room names; the empty string is a call without session_id
SessionIds == {"", "room-a", "room-b"}

\* an identities entry with a name and a voice for each of the languages
identity(persona, entry, langs) ==
    [name |-> [l \in langs |-> <<persona, entry, l>>],
     voice |-> [l \in langs |-> <<persona, entry, l>>]]

\* the persona files on disk: two fully localized identities, three
\* identities of which one is English only, and a persona without an
\* identities list; the file of behavioral_manager is absent
PersonaFiles ==
    [p \in {"hr_recruiter", "tech_lead", "practice_interviewer"} |->
        CASE p = "hr_recruiter" ->
                [identities |-> <<identity(p, 1, Languages), identity(p, 2, Languages)>>,
                 root |-> identity(p, 0, {"en"})]
          [] p = "tech_lead" ->
                [identities |-> <<identity(p, 1, Languages), identity(p, 2, {"en"}),
                                  identity(p, 3, Languages)>>,
                 root |-> identity(p, 0, {"en"})]
          [] OTHER ->
                [identities |-> <<>>, root |-> identity(p, 0, Languages)]]

\* the key under which _load_persona finds a file (lines 77-88)
loaded_key(persona_name) ==
    IF persona_name \in DOMAIN PersonaFiles THEN persona_name
    ELSE "practice_interviewer"

\* persona_cache after _load_persona(persona_name) (lines 74-82)
cache_after_load(cache, persona_name) ==
    IF persona_name \in DOMAIN cache THEN cache
    ELSE [k \in DOMAIN cache \cup {loaded_key(persona_name)} |->
             IF k \in DOMAIN cache THEN cache[k] ELSE PersonaFiles[k]]

\* int(hashlib.md5(session_id.encode()).hexdigest(), 16): a fixed function
\* of the text, the same in every process
md5_int(session_id) ==
    CASE session_id = "room-a" -> 7
      [] session_id = "room-b" -> 12
      [] OTHER -> 3

\* the entry a call without session_id reads instead
identity_index_by_call_count(identities, session_id) ==
    (Len(identity_calls) % Len(identities)) + 1

\* hash_val % len(identities) (lines 110-112), counted from 1
identity_index(identities, session_id) ==
    (md5_int(session_id) % Len(identities)) + 1

\* the entries _resolve_identity can pick (lines 95-112); 0 is the persona's
\* root fields, and random.choice can pick any entry
resolvable_entries(persona, session_id) ==
    IF persona.identities = <<>> THEN {0}
    ELSE IF session_id = "" THEN DOMAIN persona.identities
    ELSE {identity_index(persona.identities, session_id)}

raw_identity(persona, entry) ==
    IF entry = 0 THEN persona.root ELSE persona.identities[entry]

\* name.get(language, name.get("en", "Interviewer")) (lines 115-117)
resolved_name(raw, language) ==
    IF language \in DOMAIN raw.name THEN raw.name[language]
    ELSE IF "en" \in DOMAIN raw.name THEN raw.name["en"]
    ELSE <<"Interviewer", 0, "en">>

\* voices.get(language, voices.get("en")) (lines 343-345)
resolved_voice(raw, language) ==
    IF language \in DOMAIN raw.voice THEN raw.voice[language]
    ELSE raw.voice["en"]

\* the methods that resolve an identity, and what each returns of it: the
\* rendered texts carry the name, get_voice_model returns the voice id
ResolvingMethods == {"get_system_instruction", "get_greeting", "get_voice_model"}

returned(method, raw, language) ==
    IF method = "get_voice_model" THEN resolved_voice(raw, language)
    ELSE resolved_name(raw, language)

InitPrompt ==
    /\ EngineAtRest
    /\ NoSessionState
    /\ NoExceptMemory
    /\ NoCrossStageMemory

\* one call of get_system_instruction, get_greeting or get_voice_model
ResolveIdentityCall(method, stage, session_id, language) ==
    /\ Len(identity_calls) < MaxIdentityCalls
    /\ LET cache == cache_after_load(persona_cache, persona_key(stage))
           key == loaded_key(persona_key(stage))
       IN /\ persona_cache' = cache
          /\ \E entry \in resolvable_entries(cache[key], session_id) :
                identity_calls' =
                    Append(identity_calls,
                           [method |-> method, persona |-> key,
                            session_id |-> session_id, language |-> language,
                            value |-> returned(method, raw_identity(cache[key], entry),
                                               language)])
    /\ UNCHANGED <<exceptPrompt, diffVars, profileVars, sessionVars>>

\* the worker process is restarted: the new PromptManager has an empty cache
ProcessRestart ==
    /\ persona_cache # <<>>
    /\ persona_cache' = <<>>
    /\ UNCHANGED <<exceptPrompt, diffVars, profileVars, sessionVars, identity_calls>>

NextPrompt ==
    \/ \E method \in ResolvingMethods, stage \in StageTypes,
          session_id \in SessionIds, language \in Languages :
          ResolveIdentityCall(method, stage, session_id, language)
    \/ ProcessRestart

SpecPrompt == InitPrompt /\ [][NextPrompt]_vars

\* what the given entry of a persona gives a call of the method
value_of_entry(persona, entry, method, language) ==
    returned(method, raw_identity(PersonaFiles[persona], entry), language)

entries_of(persona) ==
    IF PersonaFiles[persona].identities = <<>> THEN {0}
    ELSE DOMAIN PersonaFiles[persona].identities

\* C23: identity and voice resolution are deterministic.  For one persona,
\* one non-empty session_id and one language there is a single identities
\* entry that every call made so far returned the name or the voice of,
\* whatever the method, the order of the calls, the calls of other sessions
\* and the restarts between them.
IdentityIsDeterministic ==
    \A persona \in DOMAIN PersonaFiles, session_id \in SessionIds \ {""},
       language \in Languages :
       \E entry \in entries_of(persona) :
          \A i \in DOMAIN identity_calls :
             (/\ identity_calls[i].persona = persona
              /\ identity_calls[i].session_id = session_id
              /\ identity_calls[i].language = language)
                => identity_calls[i].value =
                       value_of_entry(persona, entry, identity_calls[i].method, language)

\* a session resolved its name with get_system_instruction and then its
\* voice with get_voice_model, for a persona with three identities
IdentityIsDeterministicWitness ==
    /\ Len(identity_calls) = 2
    /\ identity_calls[1].session_id = "room-a"
    /\ identity_calls[2].session_id = "room-a"
    /\ identity_calls[1].persona = "tech_lead"
    /\ identity_calls[2].persona = "tech_lead"
    /\ identity_calls[1].language = identity_calls[2].language
    /\ identity_calls[1].method = "get_system_instruction"
    /\ identity_calls[2].method = "get_voice_model"

---------------------------------------------------------------------------
(* The decision of an update call (SpecDifficulty) *)

\* a step that is a call of update, and the score and turn it was given
is_update_call == update_calls' # update_calls
score_given == update_calls'[Len(update_calls')]
turn_given == Len(update_calls')

\* the window the call decides on, and how long the level has been held
\* counting the call
window_after_call == LastN(Append(difficulty_state.score_window, score_given), window_size)
decision_reached ==
    /\ Len(window_after_call) >= 2
    /\ difficulty_state.turns_at_level + 1 >= min_turns_at_level

\* mean(w) >= increase_threshold and last - first >= 0
increase_called_for(w) ==
    /\ Sum(w) >= increase_threshold * Len(w)
    /\ w[Len(w)] - w[1] >= 0

\* mean(w) <= decrease_threshold and last - first <= 0
decrease_called_for(w) ==
    /\ Sum(w) <= decrease_threshold * Len(w)
    /\ w[Len(w)] - w[1] <= 0

moved(steps) ==
    level_index(difficulty_state'.level) = level_index(difficulty_state.level) + steps

\* what a call that changed the level leaves behind
change_recorded ==
    /\ difficulty_state'.turns_at_level = 0
    /\ difficulty_state'.last_change_turn = turn_given
    /\ difficulty_state'.change_reason =
           (IF moved(1) THEN "High performance" ELSE "Struggling")
    /\ difficulty_state'.score_window = window_after_call

\* C24 as stated: once the window has two samples and the level has been
\* held for min_turns_at_level turns, the level goes up one step iff the
\* window mean is at least increase_threshold with a trend >= 0, down one
\* step iff the mean is at most decrease_threshold with a trend <= 0, and
\* stays otherwise; a change resets turns_at_level, records the turn and the
\* reason and keeps the window.
UpdateDecisionAsStated ==
    [][(is_update_call /\ decision_reached) =>
         /\ moved(1) <=> increase_called_for(window_after_call)
         /\ moved(-1) <=> decrease_called_for(window_after_call)
         /\ (moved(1) \/ moved(-1) \/ moved(0))
         /\ ~moved(0) => change_recorded
      ]_vars

\* C24 amended: as stated, except that the level goes up only from below
\* expert and down only from above foundational; at the end of the ladder
\* the level stays although the move is called for.
UpdateDecisionAmended ==
    [][(is_update_call /\ decision_reached) =>
         /\ moved(1) <=> (/\ increase_called_for(window_after_call)
                          /\ difficulty_state.level # "expert")
         /\ moved(-1) <=> (/\ decrease_called_for(window_after_call)
                           /\ difficulty_state.level # "foundational")
         /\ (moved(1) \/ moved(-1) \/ moved(0))
         /\ ~moved(0) => change_recorded
      ]_vars

\* C24 witness: the level was moved down to foundational, held there for two
\* more turns, and the last call decided on a window that calls for a
\* further decrease.
UpdateDecisionWitness ==
    /\ difficulty_state.level = "foundational"
    /\ difficulty_state.last_change_turn > 0
    /\ difficulty_state.change_reason = "Struggling"
    /\ difficulty_state.turns_at_level >= min_turns_at_level
    /\ decrease_called_for(difficulty_state.score_window)

\* C30: at the ends of the ladder a move that is called for changes nothing
\* but the counters: a call at expert whose window calls for an increase, or
\* at foundational whose window calls for a decrease, leaves level,
\* last_change_turn and change_reason as they were, counts turns_at_level up
\* by one instead of resetting it, and still takes the score into the window.
LadderEndIsNoOp ==
    [][(/\ is_update_call
        /\ decision_reached
        /\ \/ /\ difficulty_state.level = "expert"
              /\ increase_called_for(window_after_call)
           \/ /\ difficulty_state.level = "foundational"
              /\ decrease_called_for(window_after_call))
       => /\ difficulty_state'.level = difficulty_state.level
          /\ difficulty_state'.last_change_turn = difficulty_state.last_change_turn
          /\ difficulty_state'.change_reason = difficulty_state.change_reason
          /\ difficulty_state'.turns_at_level = difficulty_state.turns_at_level + 1
          /\ difficulty_state'.score_window = window_after_call
      ]_vars

\* C30 witness: the level reached expert at turn 4 and was held for two
\* further turns, the last of which called for an increase at expert.
LadderEndWitness ==
    /\ difficulty_state.level = "expert"
    /\ difficulty_state.last_change_turn = 4
    /\ difficulty_state.turns_at_level >= min_turns_at_level
    /\ increase_called_for(difficulty_state.score_window)

---------------------------------------------------------------------------
(* Which items get a scoring pipeline (Spec) *)

\* a step in which an item was delivered, and the item
item_delivered == Len(conversation_history') = Len(conversation_history) + 1
new_item == conversation_history'[Len(conversation_history')]

\* the step created exactly one pipeline, for the delivered item, with the
\* question and answer of that turn, suspended at its scoring call
one_pipeline_created ==
    /\ Len(tasks') = Len(tasks) + 1
    /\ tasks'[Len(tasks')] = [turn_num |-> Len(conversation_history'),
                              question |-> last_assistant_message,
                              answer_len |-> new_item.len,
                              score |-> 0,
                              pc |-> "score_llm"]

---------------------------------------------------------------------------
(* cross_stage_memory.py: save_stage_insights called by one session after   *)
(* the other, for the stages of one application                             *)

\* number of save_stage_insights calls for the application
MaxSaves == 2

\* the profiles of the later sessions
LaterProfiles == {profile_with(<<s>>) : s \in Scores}

\* the previous call has returned, and the on_shutdown of a later session
\* of the application calls save_stage_insights for its stage
SaveStageInsightsAgain ==
    /\ insights_call # None
    /\ insights_call[1].pc = "returned"
    /\ insights_call[1].call_no < MaxSaves
    /\ stage_type' \in StageTypes
    /\ candidate_profile' \in LaterProfiles
    /\ difficulty_state' = create_initial_state(get_level_for_stage(stage_type'))
    /\ insights_call' = Some([call_no |-> insights_call[1].call_no + 1,
                              pc |-> "extract_llm", insights |-> None,
                              current |-> None, failed |-> FALSE,
                              result |-> None])
    /\ UNCHANGED <<exceptMemory, update_calls, boot_pc, tasks, sessionVars,
                   cross_stage_insights>>

NextInsightsSequence ==
    \/ SaveStageInsightsCall
    \/ ExtractInsightsReturn
    \/ PersistSelectReturn
    \/ PersistUpdateReturn
    \/ PersistCommitReturn
    \/ SaveStageInsightsFails
    \/ SaveStageInsightsAgain

SpecInsightsSequence == InitInsights /\ [][NextInsightsSequence]_vars

\* the step in which a call of save_stage_insights returns
save_returns ==
    /\ insights_call # None
    /\ insights_call[1].pc # "returned"
    /\ insights_call'[1].pc = "returned"

\* the stored map is as before except for the entry of the given stage
only_entry_written(stage) ==
    /\ DOMAIN cross_stage_insights' = DOMAIN cross_stage_insights \cup {stage}
    /\ \A s \in DOMAIN cross_stage_insights \ {stage} :
          cross_stage_insights'[s] = cross_stage_insights[s]

\* C26: a save writes the entry of its stage and no other.  In the step in
\* which a call returns, the entry of its stage holds the insights the call
\* saved and every other entry is as before; no other step changes the
\* stored map.  So after any sequence of calls made one after the other each
\* stage holds the insights of the last save for that stage.
SaveWritesOwnStageOnly ==
    [][IF save_returns
       THEN /\ only_entry_written(stage_type)
            /\ cross_stage_insights'[stage_type] = insights_call'[1].result[1]
       ELSE cross_stage_insights' = cross_stage_insights
      ]_vars

---------------------------------------------------------------------------
(* last_save_count against the stored transcript (SpecTranscript) *)

\* number of messages of the transcript the row holds
persisted_count ==
    IF db_session.transcript = None THEN 0
    ELSE Len(json_loads(db_session.transcript[1]))

\* C27: last_save_count never exceeds the number of messages of the
\* transcript persisted last, so a message added while a save was suspended
\* at its database write still counts as unsaved for the next periodic tick.
SaveCountWithinPersisted == last_save_count <= persisted_count

---------------------------------------------------------------------------
(* The directive in the live instructions (SpecShadow) *)

\* the analyses that have returned an intervention
applied == {i \in DOMAIN shadow_tasks :
               shadow_tasks[i].pc = "done" /\ shadow_tasks[i].intervention}

\* the user turn the live directive was produced for, 0 without a directive
live_directive_turn ==
    IF Len(agent_instructions) > Len(base_instructions)
    THEN agent_instructions[Len(agent_instructions)]
    ELSE 0

\* C28: runtime directives are applied in turn order.  The live directive is
\* never that of an earlier user turn than an analysis that has already
\* returned an intervention, so once all analyses have completed it comes
\* from the latest user turn whose analysis returned one.
DirectivesInTurnOrder ==
    \A i \in applied : live_directive_turn >= shadow_tasks[i].turn

\* C29: the live instruction is the base instruction, or the base
\* instruction followed by exactly one runtime-update block (the header and
\* one intervention), however many interventions were applied.
LiveInstructionBounded ==
    \/ agent_instructions = base_instructions
    \/ /\ Len(agent_instructions) = Len(base_instructions) + 2
       /\ SubSeq(agent_instructions, 1, Len(base_instructions)) = base_instructions
       /\ agent_instructions[Len(base_instructions) + 1] = runtime_update_header
       /\ agent_instructions[Len(agent_instructions)] \in
              {shadow_tasks[i].turn : i \in applied}

\* C29 witness: two analyses have returned an intervention, and the live
\* instruction carries one block.
LiveInstructionBoundedWitness ==
    /\ Cardinality(applied) = 2
    /\ Len(agent_instructions) = Len(base_instructions) + 2

====
